---- MODULE Spec2Model ----
(***************************************************************************)
(* Model of HL7Tools/hl7-sender.py: one MLLP send/receive cycle.           *)
(* Bytes are integers 0..255, byte strings are sequences of bytes, and a   *)
(* decoded text is a sequence of Unicode code points.                      *)
(***************************************************************************)
EXTENDS Integers, Sequences, FiniteSets, TLC

\* ---------------------------------------------------------------- bounds
MaxPayload == 1
MaxStream == 4
MaxElapsed == 8
MaxBuf == 3

\* ------------------------------------------------------ program constants
SB == 11
EB == 28
CR == 13
RecvSize == 4096
Timeout == 5

\* Bytes payloads and answers are drawn from: the three framing bytes and a
\* letter.
Alphabet == {SB, EB, CR, 65}
\* Bytes a received buffer is drawn from where decoding is looked at: also an
\* invalid start byte, a lone continuation byte, and the bytes of a two-byte
\* and of a three-byte character.
WideBytes == Alphabet \cup {255, 128, 195, 169, 226, 130, 172}
\* How long a read that returns something has blocked (less than Timeout).
Delays == {0, Timeout - 1}

Min(a, b) == IF a < b THEN a ELSE b

SeqsOfLen(S, n) == [1..n -> S]

SeqsUpTo(S, n) == UNION {SeqsOfLen(S, k) : k \in 0..n}

\* ------------------------------------------------------------ byte strings
\* b"\x1c\x0d" in s
HasTerm(s) == \E i \in 1..(Len(s) - 1) : s[i] = EB /\ s[i + 1] = CR

StripSet == {SB, EB, CR}

RECURSIVE LStrip(_)
LStrip(s) ==
    IF s # <<>> /\ Head(s) \in StripSet THEN LStrip(Tail(s)) ELSE s

RECURSIVE RStrip(_)
RStrip(s) ==
    IF s # <<>> /\ s[Len(s)] \in StripSet
    THEN RStrip(SubSeq(s, 1, Len(s) - 1))
    ELSE s

\* bytes.strip(b"\x0b\x1c\x0d"): every leading and every trailing byte of the set
Strip(s) == RStrip(LStrip(s))

\* ------------------------------------------------- UTF-8, errors="ignore"
IsCont(b) == b >= 128 /\ b <= 191

\* Length of the sequence a lead byte announces; 0 for an invalid start byte.
SeqLen(b) ==
    IF b < 128 THEN 1
    ELSE IF b >= 194 /\ b <= 223 THEN 2
    ELSE IF b >= 224 /\ b <= 239 THEN 3
    ELSE IF b >= 240 /\ b <= 244 THEN 4
    ELSE 0

\* The second byte's range depends on the lead (no overlongs, no surrogates,
\* nothing above U+10FFFF).
SecondOk(lead, b) ==
    /\ IsCont(b)
    /\ (lead = 224 => b >= 160)
    /\ (lead = 237 => b <= 159)
    /\ (lead = 240 => b >= 144)
    /\ (lead = 244 => b <= 143)

\* How many bytes from position i on form a valid prefix of the sequence the
\* lead byte s[i] announces (n = SeqLen(s[i]) >= 2).
RECURSIVE GoodFrom(_, _, _, _)
GoodFrom(s, i, n, k) ==
    IF k = n \/ i + k > Len(s) THEN k
    ELSE IF (IF k = 1 THEN SecondOk(s[i], s[i + k]) ELSE IsCont(s[i + k]))
         THEN GoodFrom(s, i, n, k + 1)
         ELSE k

CodePoint(s, i, n) ==
    IF n = 2 THEN (s[i] - 192) * 64 + (s[i + 1] - 128)
    ELSE IF n = 3 THEN (s[i] - 224) * 4096 + (s[i + 1] - 128) * 64 + (s[i + 2] - 128)
    ELSE (s[i] - 240) * 262144 + (s[i + 1] - 128) * 4096
         + (s[i + 2] - 128) * 64 + (s[i + 3] - 128)

RECURSIVE Utf8From(_, _)
Utf8From(s, i) ==
    IF i > Len(s) THEN <<>>
    ELSE LET n == SeqLen(s[i]) IN
         IF n = 1 THEN <<s[i]>> \o Utf8From(s, i + 1)
         ELSE IF n = 0 THEN Utf8From(s, i + 1)
         ELSE LET good == GoodFrom(s, i, n, 1) IN
              IF good = n THEN <<CodePoint(s, i, n)>> \o Utf8From(s, i + n)
              ELSE IF i + good > Len(s) THEN <<>>
              ELSE Utf8From(s, i + good)

\* bytes.decode("utf-8", errors="ignore")
Utf8DecodeIgnore(s) == Utf8From(s, 1)

\* str.encode("utf-8"): one to four bytes for each code point
RECURSIVE Utf8Encode(_)
Utf8Encode(t) ==
    IF t = <<>> THEN <<>>
    ELSE LET cp == Head(t) IN
         (IF cp < 128 THEN <<cp>>
          ELSE IF cp < 2048 THEN <<192 + (cp \div 64), 128 + (cp % 64)>>
          ELSE IF cp < 65536
               THEN <<224 + (cp \div 4096), 128 + ((cp \div 64) % 64), 128 + (cp % 64)>>
          ELSE <<240 + (cp \div 262144), 128 + ((cp \div 4096) % 64),
                 128 + ((cp \div 64) % 64), 128 + (cp % 64)>>)
         \o Utf8Encode(Tail(t))

\* ack_data.strip(b"\x0b\x1c\x0d").decode("utf-8", errors="ignore")
Decode(s) == Utf8DecodeIgnore(Strip(s))

\* The frame without its closing carriage return.
FrameWithoutCR(p) == <<SB>> \o p \o <<EB>>

\* SB + hl7_message.encode("utf-8") + EB + CR
Frame(p) == <<SB>> \o p \o <<EB, CR>>

\* ------------------------------------------------------------------ state
VARIABLES
    pc,             \* where the script is
    payload,        \* hl7_message.encode("utf-8")
    framed_message, \* the frame built from it
    sock,           \* the connection: "none", "open" or "closed"
    connects,       \* number of socket.create_connection calls
    wire,           \* bytes written to the connection
    ack_data,       \* the receive buffer
    chunk,          \* what the last sock.recv returned
    peer,           \* what the listener does next
    delivered,      \* every byte the listener has handed to recv, in order
    ended,          \* how the receive loop ended: "none", "complete", "eof",
                    \* "timeout" or "error"
    elapsed,        \* time spent in the receive phase
    exc,            \* the exception in flight: "none", "connect", "send", "recv"
    reported,       \* what the run has told its caller
    ack_str         \* the decoded acknowledgment

vars == <<pc, payload, framed_message, sock, connects, wire, ack_data, chunk,
          peer, delivered, ended, elapsed, exc, reported, ack_str>>

PeerModes == {"talking", "close", "silent", "reset"}

Init ==
    /\ pc = "Idle"
    /\ payload \in SeqsUpTo(Alphabet, MaxPayload)
    /\ framed_message = <<>>
    /\ sock = "none"
    /\ connects = 0
    /\ wire = <<>>
    /\ ack_data = <<>>
    /\ chunk = <<>>
    /\ peer \in PeerModes
    /\ delivered = <<>>
    /\ ended = "none"
    /\ elapsed = 0
    /\ exc = "none"
    /\ reported = {}
    /\ ack_str = <<>>

\* lines 21-23: build the frame, announce the connection attempt
Start ==
    /\ pc = "Idle"
    /\ framed_message' = Frame(payload)
    /\ pc' = "Connecting"
    /\ UNCHANGED <<delivered, ended, payload, sock, connects, wire, ack_data,
                   chunk, peer, elapsed, exc, reported, ack_str>>

\* line 24: socket.create_connection succeeds
ConnectOk ==
    /\ pc = "Connecting"
    /\ connects' = connects + 1
    /\ sock' = "open"
    /\ pc' = "Sending"
    /\ UNCHANGED <<delivered, ended, payload, framed_message, wire, ack_data,
                   chunk, peer, elapsed, exc, reported, ack_str>>

\* The failed connect caught and tried again.
ConnectFailRetries ==
    /\ pc = "Connecting"
    /\ connects < 2
    /\ connects' = connects + 1
    /\ exc' = "connect"
    /\ pc' = "Connecting"
    /\ UNCHANGED <<delivered, ended, payload, framed_message, sock, wire,
                   ack_data, chunk, peer, elapsed, reported, ack_str>>

\* line 24: socket.create_connection raises; nothing catches it
ConnectFail ==
    /\ pc = "Connecting"
    /\ connects' = connects + 1
    /\ exc' = "connect"
    /\ reported' = reported \cup {"error"}
    /\ pc' = "Aborted"
    /\ UNCHANGED <<delivered, ended, payload, framed_message, sock, wire,
                   ack_data, chunk, peer, elapsed, ack_str>>

\* sock.send in place of sock.sendall: one write, which may be short, and the
\* script goes on to read.
SendOnceMayBeShort ==
    /\ pc = "Sending"
    /\ \E k \in 0..Len(framed_message) :
           wire' = wire \o SubSeq(framed_message, 1, k)
    /\ ack_data' = <<>>
    /\ elapsed' = 0
    /\ pc' = "AwaitingAck"
    /\ UNCHANGED <<delivered, ended, payload, framed_message, sock, connects,
                   chunk, peer, exc, reported, ack_str>>

\* lines 26-30: sendall writes the whole frame, then the buffer is created
\* and the socket's timeout set
SendAllOk ==
    /\ pc = "Sending"
    /\ wire' = wire \o framed_message
    /\ ack_data' = <<>>
    /\ elapsed' = 0
    /\ pc' = "AwaitingAck"
    /\ UNCHANGED <<delivered, ended, payload, framed_message, sock, connects,
                   chunk, peer, exc, reported, ack_str>>

\* line 26: sendall raises after writing only part of the frame
SendAllFail ==
    /\ pc = "Sending"
    /\ \E k \in 0..(Len(framed_message) - 1) :
           wire' = wire \o SubSeq(framed_message, 1, k)
    /\ exc' = "send"
    /\ pc' = "Raising"
    /\ UNCHANGED <<delivered, ended, payload, framed_message, sock, connects,
                   ack_data, chunk, peer, elapsed, reported, ack_str>>

\* ack_data = chunk in place of ack_data += chunk: the buffer holds the last
\* chunk only.
KeepLastChunk(buf, c) == c

\* line 36: ack_data += chunk
Accumulate(buf, c) == buf \o c

\* The terminator looked for in the chunk just read instead of the buffer.
TermInLastChunk(buf, c) == HasTerm(c)

\* line 37: b"\x1c\x0d" in ack_data, after the chunk c was added to buf
FrameComplete(buf, c) == HasTerm(buf)

\* lines 33-38: recv returns a non-empty chunk
RecvChunk ==
    /\ pc = "AwaitingAck"
    /\ peer = "talking"
    /\ \E n \in 1..Min(RecvSize, MaxStream - Len(ack_data)) :
       \E c \in SeqsOfLen(Alphabet, n) :
       \E d \in Delays :
       \E p \in PeerModes :
           /\ elapsed + d <= MaxElapsed
           /\ p = "talking" => Len(ack_data) + n < MaxStream
           /\ chunk' = c
           /\ ack_data' = Accumulate(ack_data, c)
           /\ elapsed' = elapsed + d
           /\ peer' = p
           /\ delivered' = delivered \o c
           /\ ended' = IF FrameComplete(ack_data', c) THEN "complete" ELSE ended
           /\ pc' = IF FrameComplete(ack_data', c) THEN "AckComplete" ELSE "AwaitingAck"
    /\ UNCHANGED <<payload, framed_message, sock, connects, wire, exc,
                   reported, ack_str>>

\* 'continue' in place of 'break' on an empty read: the loop reads again.
RecvEofReadsOn ==
    /\ pc = "AwaitingAck"
    /\ peer = "close"
    /\ ended = "none"
    /\ \E d \in Delays :
           /\ elapsed + d <= MaxElapsed
           /\ elapsed' = elapsed + d
    /\ chunk' = <<>>
    /\ ended' = "eof"
    /\ pc' = "AwaitingAck"
    /\ UNCHANGED <<delivered, payload, framed_message, sock, connects, wire,
                   ack_data, peer, exc, reported, ack_str>>

\* The buffer has no size limit (line 36). Where the peer never stops, the
\* model keeps the last MaxStream bytes of a longer buffer: while the buffer
\* holds no terminator, the test of line 37 on the grown buffer depends on
\* its last byte and the new chunk alone.
KeepTail(s) ==
    IF Len(s) > MaxStream THEN SubSeq(s, Len(s) - MaxStream + 1, Len(s)) ELSE s

\* lines 33-38: recv returns a non-empty chunk, from a peer that may go on
\* for ever, a chunk every Timeout - 1 seconds at the slowest; time past
\* MaxElapsed is not told apart.
RecvMore ==
    /\ pc = "AwaitingAck"
    /\ peer = "talking"
    /\ \E n \in 1..Min(RecvSize, MaxStream) :
       \E c \in SeqsOfLen(Alphabet, n) :
       \E d \in Delays \ {0} :
       \E p \in PeerModes :
           /\ chunk' = c
           /\ ack_data' = KeepTail(Accumulate(ack_data, c))
           /\ elapsed' = Min(elapsed + d, MaxElapsed)
           /\ peer' = p
           /\ delivered' = KeepTail(delivered \o c)
           /\ ended' = IF FrameComplete(Accumulate(ack_data, c), c)
                       THEN "complete" ELSE ended
           /\ pc' = IF FrameComplete(Accumulate(ack_data, c), c)
                    THEN "AckComplete" ELSE "AwaitingAck"
    /\ UNCHANGED <<payload, framed_message, sock, connects, wire, exc,
                   reported, ack_str>>

\* lines 33-35: recv returns b"" because the peer closed
RecvEof ==
    /\ pc = "AwaitingAck"
    /\ peer = "close"
    /\ \E d \in Delays :
           /\ elapsed + d <= MaxElapsed
           /\ elapsed' = elapsed + d
    /\ chunk' = <<>>
    /\ ended' = "eof"
    /\ pc' = "AckPartial"
    /\ UNCHANGED <<delivered, payload, framed_message, sock, connects, wire,
                   ack_data, peer, exc, reported, ack_str>>

\* Without sock.settimeout the read of a silent peer never returns.
RecvBlocksForever ==
    /\ FALSE
    /\ UNCHANGED vars

\* A timeout handler that also resets the buffer (ack_data = b"").
RecvTimeoutDropsBuffer ==
    /\ pc = "AwaitingAck"
    /\ peer = "silent"
    /\ elapsed' = elapsed + Timeout
    /\ reported' = reported \cup {"timeout"}
    /\ ended' = "timeout"
    /\ ack_data' = <<>>
    /\ pc' = "TimedOut"
    /\ UNCHANGED <<delivered, payload, framed_message, sock, connects, wire,
                   chunk, peer, exc, ack_str>>

\* lines 33, 39-40: recv blocks for the socket's timeout and raises
\* socket.timeout, which the handler reports
RecvTimeout ==
    /\ pc = "AwaitingAck"
    /\ peer = "silent"
    /\ elapsed' = elapsed + Timeout
    /\ reported' = reported \cup {"timeout"}
    /\ ended' = "timeout"
    /\ pc' = "TimedOut"
    /\ UNCHANGED <<delivered, payload, framed_message, sock, connects, wire,
                   ack_data, chunk, peer, exc, ack_str>>

\* 'except OSError' in place of 'except socket.timeout': every read error is
\* absorbed like a timeout.
RecvErrorAbsorbed ==
    /\ pc = "AwaitingAck"
    /\ peer = "reset"
    /\ \E d \in Delays :
           /\ elapsed + d <= MaxElapsed
           /\ elapsed' = elapsed + d
    /\ reported' = reported \cup {"timeout"}
    /\ ended' = "error"
    /\ pc' = "TimedOut"
    /\ UNCHANGED <<delivered, payload, framed_message, sock, connects, wire,
                   ack_data, chunk, peer, exc, ack_str>>

\* line 33: recv raises another OSError, which the handler does not catch
RecvError ==
    /\ pc = "AwaitingAck"
    /\ peer = "reset"
    /\ \E d \in Delays :
           /\ elapsed + d <= MaxElapsed
           /\ elapsed' = elapsed + d
    /\ exc' = "recv"
    /\ ended' = "error"
    /\ pc' = "Raising"
    /\ UNCHANGED <<delivered, payload, framed_message, sock, connects, wire,
                   ack_data, chunk, peer, reported, ack_str>>

\* The socket closed by a plain sock.close() after the loop instead of the
\* with statement: an exception skips it.
WithExitLeaksOnError ==
    /\ pc \in {"AckComplete", "AckPartial", "TimedOut", "Raising"}
    /\ IF exc = "none"
       THEN pc' = "Closed" /\ reported' = reported /\ sock' = "closed"
       ELSE pc' = "Aborted" /\ reported' = reported \cup {"error"} /\ sock' = sock
    /\ UNCHANGED <<delivered, ended, payload, framed_message, connects, wire,
                   ack_data, chunk, peer, elapsed, exc, ack_str>>

\* line 24: the with statement's exit closes the socket, on the normal path
\* and while an exception unwinds
WithExit ==
    /\ pc \in {"AckComplete", "AckPartial", "TimedOut", "Raising"}
    /\ sock' = "closed"
    /\ IF exc = "none"
       THEN pc' = "Closed" /\ reported' = reported
       ELSE pc' = "Aborted" /\ reported' = reported \cup {"error"}
    /\ UNCHANGED <<delivered, ended, payload, framed_message, connects, wire,
                   ack_data, chunk, peer, elapsed, exc, ack_str>>

\* The post-processing indented into the with block: it runs before the
\* socket is closed.
PostProcessInsideWith ==
    /\ pc \in {"AckComplete", "AckPartial", "TimedOut"}
    /\ IF ack_data # <<>>
       THEN /\ ack_str' = Decode(ack_data)
            /\ reported' = reported \cup {"ack"}
       ELSE /\ ack_str' = ack_str
            /\ reported' = reported \cup {"noack"}
    /\ pc' = "Done"
    /\ UNCHANGED <<delivered, ended, payload, framed_message, sock, connects,
                   wire, ack_data, chunk, peer, elapsed, exc>>

\* A strict post-processing: only a buffer that holds the terminator is
\* decoded.
PostProcessNeedsTerm ==
    /\ pc = "Closed"
    /\ IF HasTerm(ack_data)
       THEN /\ ack_str' = Decode(ack_data)
            /\ reported' = reported \cup {"ack"}
       ELSE /\ ack_str' = ack_str
            /\ reported' = reported \cup {"noack"}
    /\ pc' = "Done"
    /\ UNCHANGED <<delivered, ended, payload, framed_message, sock, connects,
                   wire, ack_data, chunk, peer, elapsed, exc>>

\* decode("utf-8") without errors="ignore": a buffer that is not valid UTF-8
\* raises UnicodeDecodeError.
PostProcessStrictDecode ==
    /\ pc = "Closed"
    /\ IF ack_data = <<>>
       THEN /\ reported' = reported \cup {"noack"}
            /\ UNCHANGED <<ack_str, exc>>
            /\ pc' = "Done"
       ELSE IF Utf8Encode(Utf8DecodeIgnore(Strip(ack_data))) = Strip(ack_data)
       THEN /\ ack_str' = Decode(ack_data)
            /\ reported' = reported \cup {"ack"}
            /\ exc' = exc
            /\ pc' = "Done"
       ELSE /\ exc' = "decode"
            /\ reported' = reported \cup {"error"}
            /\ ack_str' = ack_str
            /\ pc' = "Aborted"
    /\ UNCHANGED <<delivered, ended, payload, framed_message, sock, connects,
                   wire, ack_data, chunk, peer, elapsed>>

\* lines 43-48: decode and print the acknowledgment, or say there is none
PostProcess ==
    /\ pc = "Closed"
    /\ IF ack_data # <<>>
       THEN /\ ack_str' = Decode(ack_data)
            /\ reported' = reported \cup {"ack"}
       ELSE /\ ack_str' = ack_str
            /\ reported' = reported \cup {"noack"}
    /\ pc' = "Done"
    /\ UNCHANGED <<delivered, ended, payload, framed_message, sock, connects,
                   wire, ack_data, chunk, peer, elapsed, exc>>

\* line 33: one sock.recv call, whatever it returns or raises
Read == RecvChunk \/ RecvEof \/ RecvTimeout \/ RecvError

Next ==
    \/ Start
    \/ ConnectOk
    \/ ConnectFail
    \/ SendAllOk
    \/ SendAllFail
    \/ RecvChunk
    \/ RecvEof
    \/ RecvTimeout
    \/ RecvError
    \/ WithExit
    \/ PostProcess

Spec == Init /\ [][Next]_vars

\* The message is fixed when the script starts; the receive phase never looks
\* at it, so the behaviours checked for progress start from one message.
InitOneMessage == Init /\ payload = <<65>>

\* The script runs to its end: a step that can be taken is taken.
FairSpec == InitOneMessage /\ [][Next]_vars /\ WF_vars(Next)

\* The script against a peer that need not ever stop sending.
ChattyNext ==
    \/ Start
    \/ ConnectOk
    \/ ConnectFail
    \/ SendAllOk
    \/ SendAllFail
    \/ RecvMore
    \/ RecvEof
    \/ RecvTimeout
    \/ RecvError
    \/ WithExit
    \/ PostProcess

\* The script runs on: a read returns when the peer sends, closes or resets,
\* and times out when the peer is silent.
ChattySpec == InitOneMessage /\ [][ChattyNext]_vars /\ WF_vars(ChattyNext)

\* The script after the with block, for every buffer the receive loop can
\* leave: read in one chunk, then the terminator seen, the peer closed or the
\* read timed out.
DecodeInit ==
    /\ pc = "Closed"
    /\ payload = <<65>>
    /\ framed_message = Frame(payload)
    /\ wire = framed_message
    /\ sock = "closed"
    /\ connects = 1
    /\ ack_data \in SeqsUpTo(WideBytes, MaxBuf)
    /\ delivered = ack_data
    /\ ended \in {"complete", "eof", "timeout"}
    /\ ended = "complete" <=> HasTerm(ack_data)
    /\ chunk = IF ended = "eof" THEN <<>> ELSE ack_data
    /\ peer = IF ended = "timeout" THEN "silent" ELSE "close"
    /\ elapsed = IF ended = "timeout" THEN Timeout ELSE 0
    /\ exc = "none"
    /\ reported = IF ended = "timeout" THEN {"timeout"} ELSE {}
    /\ ack_str = <<>>

\* The post-processing alone, over those buffers.
DecodeSpec == DecodeInit /\ [][PostProcess]_vars

\* The states in which the cycle is over.
CycleOver == pc \in {"Closed", "Done", "Aborted"}

TypeOK ==
    /\ pc \in {"Idle", "Connecting", "Sending", "AwaitingAck", "AckComplete",
               "AckPartial", "TimedOut", "Raising", "Closed", "Done", "Aborted"}
    /\ sock \in {"none", "open", "closed"}
    /\ connects \in 0..1
    /\ Len(ack_data) <= MaxStream
    /\ peer \in PeerModes
    /\ ended \in {"none", "complete", "eof", "timeout", "error"}
    /\ exc \in {"none", "connect", "send", "recv"}
    /\ reported \subseteq {"ack", "noack", "timeout", "error"}
\* ------------------------------------------------------------------ claims

\* C1 (resource release): when the cycle is over, a connection that was
\* opened is closed, whatever the exit path, and a failed connect leaves no
\* handle; a closed connection stays closed, and nothing is written to it or
\* read from it afterwards.
C1_ResourceRelease ==
    /\ [](CycleOver => IF exc = "connect" THEN sock = "none" ELSE sock = "closed")
    /\ [][sock = "closed" =>
              /\ sock' = "closed"
              /\ wire' = wire
              /\ delivered' = delivered
              /\ ack_data' = ack_data
              /\ chunk' = chunk
              /\ ended' = ended]_vars

\* A receive I/O error after some bytes had arrived, and the connection closed.
C1_Witness ==
    /\ pc = "Aborted"
    /\ exc = "recv"
    /\ delivered # <<>>
    /\ sock = "closed"

\* C2 (overall deadline): whenever the loop is about to issue another read,
\* the response deadline, measured from the start of the receive phase, has
\* not elapsed; a loop that stops by timeout stops when the deadline elapses.
C2_OverallDeadline ==
    /\ pc = "AwaitingAck" => elapsed < Timeout
    /\ pc = "TimedOut" => elapsed <= Timeout

\* C3 (silent peer): once the frame is sent, a peer that delivers nothing and
\* never closes leads to the timeout being reported and the connection
\* released.
C3_SilentPeerTimesOut ==
    (pc = "AwaitingAck" /\ peer = "silent" /\ delivered = <<>>)
        ~> ("timeout" \in reported /\ sock = "closed" /\ CycleOver)

\* The silent peer's cycle, over: timed out with nothing received.
C3_Witness ==
    /\ CycleOver
    /\ peer = "silent"
    /\ delivered = <<>>
    /\ ended = "timeout"
    /\ "timeout" \in reported
    /\ sock = "closed"
\* A well-formed frame: 0x0B, a payload without the pair 0x1C 0x0D, then
\* 0x1C 0x0D.
IsValidFrame(f) ==
    /\ Len(f) >= 3
    /\ f[1] = 11
    /\ f[Len(f) - 1] = 28
    /\ f[Len(f)] = 13
    /\ \A i \in 2..(Len(f) - 3) : ~(f[i] = 28 /\ f[i + 1] = 13)

\* The bytes of a frame between its first byte and its last two.
Inner(f) == SubSeq(f, 2, Len(f) - 2)

\* C4 (partial-frame tolerance): the loop never reads on once the bytes
\* delivered hold the terminator, and when the chunks delivered, however the
\* frame was split, add up to a valid frame, the loop has stopped without
\* timeout or error and the acknowledgment is the one the whole frame gives.
C4_PartialFrameTolerance ==
    /\ pc = "AwaitingAck" => ~HasTerm(delivered)
    /\ IsValidFrame(delivered) =>
           /\ pc \in {"AckComplete", "Closed", "Done"}
           /\ ended = "complete"
           /\ "timeout" \notin reported
           /\ exc = "none"
           /\ pc = "Done" =>
                  /\ reported = {"ack"}
                  /\ ack_str = Utf8DecodeIgnore(Strip(delivered))

\* The frame 0x0B "A" 0x1C 0x0D, split between 0x1C and 0x0D, acknowledged.
C4_Witness ==
    /\ pc = "Done"
    /\ delivered = <<11, 65, 28, 13>>
    /\ chunk = <<13>>
    /\ ack_str = <<65>>
    /\ reported = {"ack"}

\* C5 (round trip): when the peer answers with the very frame sent and the
\* payload holds no pair 0x1C 0x0D, the decoded acknowledgment is the
\* payload.
C5_RoundTrip ==
    (pc = "Done" /\ delivered = wire /\ ~HasTerm(payload))
        => Utf8Encode(ack_str) = payload

\* C6 (empty versus timeout): a finished cycle reports exactly one outcome; a
\* peer that closes at once without a byte gives only no-acknowledgment, a
\* peer that stays silent gives only timeout, and no-acknowledgment is never
\* reported together with timeout.
C6_OneOutcome ==
    (pc \in {"Done", "Aborted"}) =>
        /\ Cardinality(reported) = 1
        /\ (ended = "eof" /\ delivered = <<>>) => reported = {"noack"}
        /\ (ended = "timeout" /\ delivered = <<>>) => reported = {"timeout"}
        /\ "timeout" \in reported => "noack" \notin reported

\* The states in which sendall has returned.
FrameSent ==
    \/ pc \in {"AwaitingAck", "AckComplete", "AckPartial", "TimedOut", "Closed",
               "Done"}
    \/ exc = "recv"

\* C7 (framing): once the frame is written, the bytes on the connection are
\* 0x0B, the payload unchanged and in order, 0x1C, 0x0D: len(payload) + 3
\* bytes, for the empty payload too.
C7_Framing ==
    FrameSent =>
        /\ Len(wire) = Len(payload) + 3
        /\ wire[1] = 11
        /\ wire[Len(wire) - 1] = 28
        /\ wire[Len(wire)] = 13
        /\ \A i \in 1..Len(payload) : wire[i + 1] = payload[i]

\* The empty payload, framed and written.
C7_Witness ==
    /\ pc = "AwaitingAck"
    /\ payload = <<>>
    /\ wire = <<11, 28, 13>>

\* The order of the protocol states; a failure leaves it through Raising and
\* Aborted.
PcEdges ==
    {<<"Idle", "Connecting">>, <<"Connecting", "Sending">>,
     <<"Sending", "AwaitingAck">>, <<"AwaitingAck", "AwaitingAck">>,
     <<"AwaitingAck", "AckComplete">>, <<"AwaitingAck", "AckPartial">>,
     <<"AwaitingAck", "TimedOut">>, <<"AckComplete", "Closed">>,
     <<"AckPartial", "Closed">>, <<"TimedOut", "Closed">>,
     <<"Closed", "Done">>,
     <<"Connecting", "Aborted">>, <<"Sending", "Raising">>,
     <<"AwaitingAck", "Raising">>, <<"Raising", "Aborted">>}

\* C8 (protocol order): the states follow one another in the order Idle,
\* Connecting, Sending, AwaitingAck, one of AckComplete, AckPartial and
\* TimedOut, Closed; bytes are written only to an open connection, once, and
\* as a whole frame before any read; at most one connection is opened; the
\* buffer is decoded or reported empty only after the connection is closed.
C8_ProtocolOrder ==
    /\ [](connects <= 1)
    /\ [](pc \in {"Closed", "Done"} => (connects = 1 /\ wire = Frame(payload)))
    /\ [][/\ <<pc, pc'>> \in PcEdges
          /\ (sock' = "open" /\ sock # "open") => pc = "Connecting"
          /\ (wire' # wire) => (sock = "open" /\ wire = <<>> /\ pc = "Sending")
          /\ (delivered' # delivered \/ ended' # ended) =>
                 (sock = "open" /\ wire = Frame(payload))
          /\ (\/ ack_str' # ack_str
              \/ ("ack" \in reported' /\ "ack" \notin reported)
              \/ ("noack" \in reported' /\ "noack" \notin reported)) =>
                 (sock = "closed" /\ pc = "Closed")]_vars

\* A whole cycle: one connection, the frame written, the answer read, the
\* connection closed, the acknowledgment decoded.
C8_Witness ==
    /\ pc = "Done"
    /\ ended = "complete"
    /\ connects = 1
    /\ sock = "closed"
    /\ wire = framed_message
    /\ "ack" \in reported

\* C9 (end of stream): a read of zero bytes ends the loop at once without a
\* timeout signal, and the bytes accumulated before are the response: decoded
\* and reported as the acknowledgment when there are any, terminator or not,
\* and reported as no acknowledgment when there are none.
C9_EndOfStream ==
    ended = "eof" =>
        /\ pc \in {"AckPartial", "Closed", "Done"}
        /\ chunk = <<>>
        /\ ack_data = delivered
        /\ "timeout" \notin reported
        /\ pc = "Done" =>
               IF delivered # <<>>
               THEN reported = {"ack"} /\ ack_str = Utf8DecodeIgnore(Strip(delivered))
               ELSE reported = {"noack"} /\ ack_str = <<>>

\* The peer closed after bytes without a terminator, and they were decoded.
C9_Witness ==
    /\ pc = "Done"
    /\ ended = "eof"
    /\ delivered = <<11, 65>>
    /\ ack_str = <<65>>
    /\ reported = {"ack"}

\* C10 (connection failure): a failed connect ends the cycle with the error
\* and nothing else reported, after a single attempt, with nothing written
\* and nothing read, and the script does nothing further.
C10_ConnectFailure ==
    exc = "connect" =>
        /\ pc = "Aborted"
        /\ connects = 1
        /\ reported = {"error"}
        /\ wire = <<>>
        /\ delivered = <<>>
        /\ ended = "none"
        /\ sock = "none"
        /\ ~ENABLED Next

\* The cycle aborted by a failed connect.
C10_Witness ==
    /\ pc = "Aborted"
    /\ exc = "connect"
    /\ reported = {"error"}
\* A read has been issued: it returned bytes, or ended the loop.
ReadIssued == delivered # <<>> \/ ended # "none"

\* C11 (send failure): a failed write leaves part of the frame at most on
\* the connection, no read is issued, none of acknowledgment, no
\* acknowledgment and timeout is reported, and the cycle ends aborted with
\* the error reported and the connection closed. When the write does not
\* fail, the receive loop is entered, and reads, only with the whole frame
\* written.
C11_SendFailure ==
    /\ exc = "send" =>
           /\ pc \in {"Raising", "Aborted"}
           /\ Len(wire) < Len(payload) + 3
           /\ wire = SubSeq(<<11>> \o payload \o <<28, 13>>, 1, Len(wire))
           /\ ~ReadIssued
           /\ chunk = <<>>
           /\ reported \subseteq {"error"}
           /\ IF pc = "Aborted"
              THEN sock = "closed" /\ reported = {"error"} /\ ~ENABLED Next
              ELSE sock = "open" /\ ENABLED WithExit
    /\ (pc = "AwaitingAck" \/ ReadIssued) =>
           (exc # "send" /\ wire = <<11>> \o payload \o <<28, 13>>)

\* The write failed after the frame's first byte, and the cycle is over.
C11_Witness ==
    /\ pc = "Aborted"
    /\ exc = "send"
    /\ wire = <<11>>
    /\ sock = "closed"
    /\ reported = {"error"}
\* The decoder of the design: one leading 0x0B removed, and the trailing run
\* of the terminator's bytes 0x1C and 0x0D.
RECURSIVE DropTrailingTerm(_)
DropTrailingTerm(s) ==
    IF s # <<>> /\ s[Len(s)] \in {28, 13}
    THEN DropTrailingTerm(SubSeq(s, 1, Len(s) - 1))
    ELSE s

LenientUnframe(s) ==
    DropTrailingTerm(IF s # <<>> /\ s[1] = 11 THEN Tail(s) ELSE s)

\* C12 (lenient decoder shape): the acknowledgment is the received bytes
\* without at most one leading 0x0B and without the trailing run of 0x1C and
\* 0x0D; a leading 0x1C or 0x0D, a second leading 0x0B and a trailing 0x0B are
\* kept.
C12_LenientDecoderShape ==
    (pc = "Done" /\ "ack" \in reported) =>
        Utf8Encode(ack_str) = LenientUnframe(ack_data)
IsAscii(b) == b < 128

\* s is t with some elements left out.
RECURSIVE IsSubseq(_, _)
IsSubseq(s, t) ==
    IF s = <<>> THEN TRUE
    ELSE IF t = <<>> THEN FALSE
    ELSE IF Head(s) = Head(t) THEN IsSubseq(Tail(s), Tail(t))
    ELSE IsSubseq(s, Tail(t))

\* Valid UTF-8 made of one-byte characters, two-byte characters and
\* three-byte characters with a lead byte from 0xE1 to 0xEC.
RECURSIVE WellFormed(_)
WellFormed(s) ==
    \/ s = <<>>
    \/ /\ Len(s) >= 1
       /\ s[1] < 128
       /\ WellFormed(SubSeq(s, 2, Len(s)))
    \/ /\ Len(s) >= 2
       /\ s[1] \in 194..223
       /\ s[2] \in 128..191
       /\ WellFormed(SubSeq(s, 3, Len(s)))
    \/ /\ Len(s) >= 3
       /\ s[1] \in 225..236
       /\ s[2] \in 128..191
       /\ s[3] \in 128..191
       /\ WellFormed(SubSeq(s, 4, Len(s)))

\* C13 (decode tolerance): a non-empty buffer, whatever its bytes, gives an
\* acknowledgment and no error; the text is the unframed buffer with bytes
\* left out and nothing added or reordered, every one-byte character is
\* kept, and an unframed buffer that is valid UTF-8 is kept whole.
C13_DecodeTolerance ==
    (pc # "Closed" /\ ack_data # <<>>) =>
        /\ pc = "Done"
        /\ exc = "none"
        /\ "ack" \in reported
        /\ "error" \notin reported
        /\ "noack" \notin reported
        /\ IsSubseq(Utf8Encode(ack_str), Strip(ack_data))
        /\ SelectSeq(Utf8Encode(ack_str), IsAscii) = SelectSeq(Strip(ack_data), IsAscii)
        /\ WellFormed(Strip(ack_data)) => Utf8Encode(ack_str) = Strip(ack_data)

\* A two-byte character followed by an invalid byte: the character is kept,
\* the byte left out.
C13_Witness ==
    /\ pc = "Done"
    /\ ack_data = <<195, 169, 255>>
    /\ ack_str = <<233>>
    /\ "ack" \in reported
\* C14 (append-only buffer): the buffer is at all times every byte read so
\* far, in arrival order; a read that returns bytes adds them at the end and
\* no other step changes the buffer; what is decoded is the whole buffer,
\* bytes after the terminator included.
C14_AppendOnlyBuffer ==
    /\ [](ack_data = delivered)
    /\ []((pc = "Done" /\ delivered # <<>>) =>
           ack_str = Utf8DecodeIgnore(Strip(delivered)))
    /\ [][IF pc = "AwaitingAck" /\ pc' \in {"AwaitingAck", "AckComplete"}
          THEN chunk' # <<>> /\ ack_data' = ack_data \o chunk'
          ELSE ack_data' = ack_data]_vars

\* The chunk that completed the terminator carried a further byte, and the
\* byte was handed to the decoder.
C14_Witness ==
    /\ pc = "Done"
    /\ chunk = <<28, 13, 65>>
    /\ ack_data = <<11, 28, 13, 65>>
    /\ ack_str = <<65>>
\* C15 (no read after a stop condition): with the terminator in the buffer,
\* or after an empty read, a timeout or a read error, the script is out of
\* the loop and no step reads again; the loop is left only with one of these;
\* and while none has happened after the frame was sent, the script is in
\* the loop and its next step is a read.
C15_NoReadAfterStop ==
    /\ []((HasTerm(ack_data) \/ ended # "none") => pc # "AwaitingAck")
    /\ [](HasTerm(ack_data) => ended = "complete")
    /\ []((FrameSent /\ ended = "none") =>
           (pc = "AwaitingAck" /\ ENABLED Read /\ ~ENABLED WithExit))
    /\ [][/\ ended # "none" =>
                 /\ ended' = ended
                 /\ delivered' = delivered
                 /\ chunk' = chunk
                 /\ elapsed' = elapsed
          /\ (pc = "AwaitingAck" /\ pc' # "AwaitingAck") => ended' # "none"
          /\ (ended = "none" /\ ended' = "complete") => HasTerm(ack_data')
          /\ (ended = "none" /\ ended' = "eof") => chunk' = <<>>]_vars

\* The terminator came while the peer had more to send: the cycle is over
\* and the rest was never read.
C15_Witness ==
    /\ pc = "Done"
    /\ ended = "complete"
    /\ peer = "talking"
    /\ Len(delivered) < MaxStream
\* C16 (timeout with data): a read that times out after terminator-free
\* bytes reports the timeout and leaves the buffer as it was, and the bytes
\* are then decoded and reported as the acknowledgment, never as no
\* acknowledgment.
C16_TimeoutWithData ==
    (ended = "timeout" /\ delivered # <<>>) =>
        /\ ~HasTerm(delivered)
        /\ "timeout" \in reported
        /\ ack_data = delivered
        /\ "noack" \notin reported
        /\ pc = "Done" =>
               /\ reported = {"timeout", "ack"}
               /\ ack_str = Utf8DecodeIgnore(Strip(delivered))

\* Two bytes, then silence: the timeout and the decoded bytes are reported.
C16_Witness ==
    /\ pc = "Done"
    /\ ended = "timeout"
    /\ delivered = <<11, 65>>
    /\ ack_str = <<65>>
    /\ reported = {"timeout", "ack"}

\* C17 (receive I/O error): a read error other than the timeout is not
\* absorbed: it is the exception in flight, nothing but the error is
\* reported, no acknowledgment is decoded whatever the buffer holds, and the
\* cycle ends aborted with the connection closed; a timeout is absorbed.
C17_ReceiveError ==
    /\ ended = "error" =>
           /\ exc = "recv"
           /\ pc \in {"Raising", "Aborted"}
           /\ reported \subseteq {"error"}
           /\ ack_str = <<>>
           /\ IF pc = "Aborted"
              THEN sock = "closed" /\ reported = {"error"} /\ ~ENABLED Next
              ELSE sock = "open" /\ ENABLED WithExit /\ ~ENABLED PostProcess
    /\ exc = "recv" => ended = "error"
    /\ ended = "timeout" => (exc = "none" /\ "error" \notin reported)

\* The connection was reset after a byte had been read.
C17_Witness ==
    /\ pc = "Aborted"
    /\ ended = "error"
    /\ ack_data = <<65>>
    /\ reported = {"error"}
    /\ sock = "closed"
\* C18 (termination): once the frame is sent, whatever the peer does, the
\* cycle comes to its end with the connection closed and an outcome
\* reported.
C18_Termination ==
    (pc = "AwaitingAck") ~> (CycleOver /\ sock = "closed" /\ reported # {})
====
